---- MODULE Spec2Model ----
(***************************************************************************)
(* Event-Next: the Event / Booking save pipelines (validation, pre-save    *)
(* hooks, unique slug index), the slug / date / time normalizers and the   *)
(* cached Mongoose connection helper.                                      *)
(*                                                                         *)
(* Strings are sequences of one-character strings, so that trimming,      *)
(* pattern matching and formatting are computed and not assumed.           *)
(***************************************************************************)
EXTENDS Integers, Sequences, FiniteSets, TLC

VARIABLES
  tz,        \* host time-zone offset, minutes east of UTC
  arg,       \* the string handed to a normalizer
  res1,      \* the normalizer's result on arg
  res2,      \* the normalizer's result on res1's value
  fpc,       \* how often the normalizer has been applied: "start", "once", "twice"
  events,    \* the Event collection: _id -> committed document
  bookings,  \* the Booking collection, in insertion order
  pc,        \* per request: "idle", "save" (save() called), "insert" (hook passed)
  doc,       \* per request: the in-memory Mongoose document being saved
  ret,       \* what the save() that finished in the last step gave its caller ("none": none did)
  uriSet,       \* whether process.env.MONGODB_URI is defined
  cacheConn,    \* cache.conn: 0 for null, else the connection, named by the connect call that made it
  cachePromise, \* cache.promise: 0 for null, else the connect call whose promise it is
  settled,      \* per mongoose.connect call: "pending", "resolved" or "rejected"
  connectCalls, \* how often mongoose.connect was invoked
  cpc,          \* per caller of connectToDatabase: "idle" or "await"
  awaiting,     \* per caller: the promise it awaits (0: none)
  got,          \* per caller: what its last returned call gave it (0: nothing yet)
  dpc,          \* disconnectDatabase: "idle" or "disconnecting"
  disconnects   \* how often disconnectDatabase was called

pureVars == <<arg, res1, res2, fpc>>

storeVars == <<events, bookings, pc, doc, ret>>

connVars == <<uriSet, cacheConn, cachePromise, settled, connectCalls, cpc, awaiting, got, dpc,
              disconnects>>

vars == <<tz, arg, res1, res2, fpc, events, bookings, pc, doc, ret, uriSet, cacheConn,
          cachePromise, settled, connectCalls, cpc, awaiting, got, dpc, disconnects>>

(***************************************************************************)
(* Characters and strings                                                  *)
(***************************************************************************)
DigitChars == <<"0", "1", "2", "3", "4", "5", "6", "7", "8", "9">>

UpperChars == <<"A", "B", "C", "D", "E", "F", "G", "H", "I", "J", "K", "L", "M",
                "N", "O", "P", "Q", "R", "S", "T", "U", "V", "W", "X", "Y", "Z">>

LowerChars == <<"a", "b", "c", "d", "e", "f", "g", "h", "i", "j", "k", "l", "m",
                "n", "o", "p", "q", "r", "s", "t", "u", "v", "w", "x", "y", "z">>

IsDigit(c) == \E i \in 1..10 : DigitChars[i] = c

DigitVal(c) == (CHOOSE i \in 1..10 : DigitChars[i] = c) - 1

IsUpper(c) == \E i \in 1..26 : UpperChars[i] = c

IsLower(c) == \E i \in 1..26 : LowerChars[i] = c

IsSpace(c) == c = " "

\* String.prototype.toLowerCase, one character
LowerChar(c) == IF IsUpper(c) THEN LowerChars[CHOOSE i \in 1..26 : UpperChars[i] = c] ELSE c

ToLowerCase(s) == [i \in 1..Len(s) |-> LowerChar(s[i])]

\* String.prototype.trim
RECURSIVE TrimLeft(_)
TrimLeft(s) == IF s # <<>> /\ IsSpace(Head(s)) THEN TrimLeft(Tail(s)) ELSE s

RECURSIVE TrimRight(_)
TrimRight(s) ==
  IF s # <<>> /\ IsSpace(s[Len(s)]) THEN TrimRight(SubSeq(s, 1, Len(s) - 1)) ELSE s

Trim(s) == TrimRight(TrimLeft(s))

AllDigits(s) == \A i \in 1..Len(s) : IsDigit(s[i])

\* Number(s) for a string of decimal digits
RECURSIVE Num(_)
Num(s) == IF s = <<>> THEN 0 ELSE 10 * Num(SubSeq(s, 1, Len(s) - 1)) + DigitVal(s[Len(s)])

\* String(n) for n >= 0
RECURSIVE Str(_)
Str(n) == IF n < 10 THEN <<DigitChars[n + 1]>> ELSE Str(n \div 10) \o <<DigitChars[(n % 10) + 1]>>

\* String.prototype.padStart(w, '0')
RECURSIVE PadStart(_, _)
PadStart(s, w) == IF Len(s) >= w THEN s ELSE PadStart(<<"0">> \o s, w)

\* String.prototype.slice(0, n)
Slice0(s, n) == SubSeq(s, 1, IF Len(s) < n THEN Len(s) ELSE n)

\* the length of the run of digits s starts with
RECURSIVE DigitRun(_)
DigitRun(s) == IF s # <<>> /\ IsDigit(Head(s)) THEN 1 + DigitRun(Tail(s)) ELSE 0

\* s without its first n characters
Drop(s, n) == SubSeq(s, n + 1, Len(s))

\* a thrown Error / a returned string
Throw(msg) == [err |-> msg, v |-> <<>>]

Return(s) == [err |-> "", v |-> s]

\* no result yet
NoResult == [err |-> "none", v |-> <<>>]

(***************************************************************************)
(* generateSlug                                                            *)
(***************************************************************************)
IsSlugChar(c) == IsLower(c) \/ IsDigit(c)

\* .replace(/[^a-z0-9]+/g, '-'): every maximal run of other characters becomes one '-'
RECURSIVE ReplaceRuns(_, _)
ReplaceRuns(s, inRun) ==
  IF s = <<>> THEN <<>>
  ELSE IF IsSlugChar(Head(s)) THEN <<Head(s)>> \o ReplaceRuns(Tail(s), FALSE)
  ELSE IF inRun THEN ReplaceRuns(Tail(s), TRUE)
  ELSE <<"-">> \o ReplaceRuns(Tail(s), TRUE)

\* .replace(/^-+|-+$/g, '')
RECURSIVE StripLeadingDashes(_)
StripLeadingDashes(s) ==
  IF s # <<>> /\ Head(s) = "-" THEN StripLeadingDashes(Tail(s)) ELSE s

RECURSIVE StripTrailingDashes(_)
StripTrailingDashes(s) ==
  IF s # <<>> /\ s[Len(s)] = "-" THEN StripTrailingDashes(SubSeq(s, 1, Len(s) - 1)) ELSE s

generateSlug(value) ==
  StripTrailingDashes(StripLeadingDashes(ReplaceRuns(Trim(ToLowerCase(value)), FALSE)))

(***************************************************************************)
(* new Date(`1970-01-01T${trimmed}`): the ECMAScript date-time string      *)
(* format.  After the 'T' the engine takes HH:mm, HH:mm:ss or             *)
(* HH:mm:ss.s+, then nothing, 'Z' or +HH:mm / -HH:mm, and nothing else.    *)
(* A time with no offset is local time.                                    *)
(***************************************************************************)
NoTime == [valid |-> FALSE, h |-> 0, m |-> 0, off |-> 0]

TwoDigitsAt(s, i) == Len(s) >= i + 1 /\ IsDigit(s[i]) /\ IsDigit(s[i + 1])

\* the offset designator: "" (local), "Z" or a sign, HH, ':', mm
ParseOffset(s, local) ==
  IF s = <<>> THEN [valid |-> TRUE, off |-> local]
  ELSE IF s = <<"Z">> THEN [valid |-> TRUE, off |-> 0]
  ELSE IF Len(s) = 6 /\ s[1] \in {"+", "-"} /\ TwoDigitsAt(s, 2) /\ s[4] = ":"
          /\ TwoDigitsAt(s, 5)
    THEN LET mins == 60 * Num(SubSeq(s, 2, 3)) + Num(SubSeq(s, 5, 6))
         IN  [valid |-> TRUE, off |-> IF s[1] = "+" THEN mins ELSE 0 - mins]
  ELSE [valid |-> FALSE, off |-> 0]

\* the seconds and fraction, when present: the length of ":ss" or ":ss.s+", or -1
SecondsLen(s, is24) ==
  IF s = <<>> \/ s[1] # ":" THEN 0
  ELSE IF ~TwoDigitsAt(s, 2) THEN -1
  ELSE IF Num(SubSeq(s, 2, 3)) > 59 \/ (is24 /\ Num(SubSeq(s, 2, 3)) > 0) THEN -1
  ELSE IF Len(s) >= 4 /\ s[4] = "."
    THEN LET n == DigitRun(Drop(s, 4))
         IN  IF n = 0 \/ (is24 /\ Num(SubSeq(s, 5, 4 + n)) > 0) THEN -1 ELSE 4 + n
  ELSE 3

ParseIsoTime(s, local) ==
  IF ~(TwoDigitsAt(s, 1) /\ Len(s) >= 5 /\ s[3] = ":" /\ TwoDigitsAt(s, 4)) THEN NoTime
  ELSE LET h == Num(SubSeq(s, 1, 2))
           m == Num(SubSeq(s, 4, 5))
           sl == SecondsLen(Drop(s, 5), h = 24)
       IN  IF h > 24 \/ m > 59 \/ (h = 24 /\ m > 0) \/ sl < 0 THEN NoTime
           ELSE LET o == ParseOffset(Drop(s, 5 + sl), local)
                IN  IF o.valid THEN [valid |-> TRUE, h |-> h, m |-> m, off |-> o.off]
                    ELSE NoTime

\* minutes after 00:00 UTC of the instant parsed: what getUTCHours / getUTCMinutes read
UtcMinuteOfDay(t) == (60 * t.h + t.m - t.off) % 1440

(***************************************************************************)
(* normalizeTime                                                           *)
(***************************************************************************)
FormatHM(hour, minute) == PadStart(Str(hour), 2) \o <<":">> \o PadStart(Str(minute), 2)

NoMatch == [matched |-> FALSE, h |-> <<>>, m |-> <<>>, ampm |-> <<>>]

AmPmWords == {<<"A", "M">>, <<"P", "M">>, <<"a", "m">>, <<"p", "m">>}

\* /^(\d{1,2})(?::|\.|h)?(\d{2})?\s*(AM|PM|am|pm)?$/ : the three groups
MatchTail(hour, rest) ==
  LET afterSep == IF rest # <<>> /\ rest[1] \in {":", ".", "h"} THEN Tail(rest) ELSE rest
      hasMin == TwoDigitsAt(afterSep, 1)
      minute == IF hasMin THEN SubSeq(afterSep, 1, 2) ELSE <<>>
      tail == TrimLeft(IF hasMin THEN Drop(afterSep, 2) ELSE afterSep)
  IN  IF tail = <<>> THEN [matched |-> TRUE, h |-> hour, m |-> minute, ampm |-> <<>>]
      ELSE IF tail \in AmPmWords
        THEN [matched |-> TRUE, h |-> hour, m |-> minute, ampm |-> tail]
      ELSE NoMatch

\* the regular expression is greedy: two hour digits are tried before one
MatchTime(s) ==
  LET two == IF TwoDigitsAt(s, 1) THEN MatchTail(SubSeq(s, 1, 2), Drop(s, 2)) ELSE NoMatch
      one == IF s # <<>> /\ IsDigit(s[1]) THEN MatchTail(SubSeq(s, 1, 1), Drop(s, 1))
             ELSE NoMatch
  IN  IF two.matched THEN two ELSE one

ManualTime(trimmed) ==
  LET m == MatchTime(trimmed)
  IN  IF ~m.matched THEN Throw("Invalid time format")
      ELSE LET h0 == Num(m.h)
               minute == IF m.m # <<>> THEN Num(m.m) ELSE 0
               a == ToLowerCase(m.ampm)
               h1 == IF m.ampm # <<>> /\ a = <<"p", "m">> /\ h0 < 12 THEN h0 + 12 ELSE h0
               hour == IF m.ampm # <<>> /\ a = <<"a", "m">> /\ h1 = 12 THEN 0 ELSE h1
           IN  IF hour < 0 \/ hour > 23 \/ minute < 0 \/ minute > 59
                 THEN Throw("Invalid time value")
               ELSE Return(FormatHM(hour, minute))

normalizeTime(value, local) ==
  IF value = <<>> THEN Throw("Time is required")
  ELSE LET trimmed == Trim(value)
           parsed == ParseIsoTime(trimmed, local)
       IN  IF parsed.valid
             THEN LET u == UtcMinuteOfDay(parsed)
                  IN  Return(FormatHM(u \div 60, u % 60))
           ELSE ManualTime(trimmed)

(***************************************************************************)
(* new Date(value): the calendar, and the date strings the engine takes.   *)
(* YYYY, YYYY-MM, YYYY-MM-DD and the expanded years +YYYYYY / -YYYYYY are  *)
(* UTC; "Month D, YYYY" is the engine's legacy format and is local time.   *)
(***************************************************************************)
IsLeap(y) == (y % 4 = 0 /\ y % 100 # 0) \/ y % 400 = 0

DaysInMonth(y, m) ==
  IF m = 2 THEN (IF IsLeap(y) THEN 29 ELSE 28)
  ELSE IF m \in {4, 6, 9, 11} THEN 30 ELSE 31

\* MakeDay: a day past the end of its month runs over into the next month
CarryDay(y, m, d) ==
  IF d <= DaysInMonth(y, m) THEN [y |-> y, m |-> m, d |-> d]
  ELSE IF m = 12 THEN [y |-> y + 1, m |-> 1, d |-> d - DaysInMonth(y, m)]
  ELSE [y |-> y, m |-> m + 1, d |-> d - DaysInMonth(y, m)]

PrevDay(c) ==
  IF c.d > 1 THEN [y |-> c.y, m |-> c.m, d |-> c.d - 1]
  ELSE IF c.m > 1 THEN [y |-> c.y, m |-> c.m - 1, d |-> DaysInMonth(c.y, c.m - 1)]
  ELSE [y |-> c.y - 1, m |-> 12, d |-> 31]

NoDate == [valid |-> FALSE, y |-> 0, m |-> 0, d |-> 0, utc |-> TRUE]

\* the rest of an ISO date after the year: "", "-MM" or "-MM-DD"
IsoMonthDay(y, s) ==
  IF s = <<>> THEN [valid |-> TRUE, y |-> y, m |-> 1, d |-> 1, utc |-> TRUE]
  ELSE IF ~(s[1] = "-" /\ TwoDigitsAt(s, 2)) THEN NoDate
  ELSE LET m == Num(SubSeq(s, 2, 3))
       IN  IF m < 1 \/ m > 12 THEN NoDate
           ELSE IF Len(s) = 3 THEN [valid |-> TRUE, y |-> y, m |-> m, d |-> 1, utc |-> TRUE]
           ELSE IF ~(Len(s) = 6 /\ s[4] = "-" /\ TwoDigitsAt(s, 5)) THEN NoDate
           ELSE LET d == Num(SubSeq(s, 5, 6))
                IN  IF d < 1 \/ d > 31 THEN NoDate
                    ELSE [valid |-> TRUE, y |-> y, m |-> m, d |-> d, utc |-> TRUE]

ParseIsoDate(s) ==
  IF s # <<>> /\ s[1] \in {"+", "-"}
    THEN IF Len(s) >= 7 /\ AllDigits(SubSeq(s, 2, 7))
           THEN LET y == Num(SubSeq(s, 2, 7))
                IN  IF s[1] = "-" /\ y = 0 THEN NoDate
                    ELSE IsoMonthDay(IF s[1] = "-" THEN 0 - y ELSE y, Drop(s, 7))
         ELSE NoDate
  ELSE IF Len(s) >= 4 /\ AllDigits(SubSeq(s, 1, 4)) /\ DigitRun(s) = 4
    THEN IsoMonthDay(Num(SubSeq(s, 1, 4)), Drop(s, 4))
  ELSE NoDate

MonthAbbrevs == <<<<"j", "a", "n">>, <<"f", "e", "b">>, <<"m", "a", "r">>, <<"a", "p", "r">>,
                  <<"m", "a", "y">>, <<"j", "u", "n">>, <<"j", "u", "l">>, <<"a", "u", "g">>,
                  <<"s", "e", "p">>, <<"o", "c", "t">>, <<"n", "o", "v">>, <<"d", "e", "c">>>>

RECURSIVE LetterRun(_)
LetterRun(s) ==
  IF s # <<>> /\ (IsUpper(Head(s)) \/ IsLower(Head(s))) THEN 1 + LetterRun(Tail(s)) ELSE 0

\* a two-digit year of the legacy format: 0..49 is 20xx, 50..99 is 19xx
LegacyYear(n) == IF n < 50 THEN 2000 + n ELSE IF n < 100 THEN 1900 + n ELSE n

\* "<month name> <day>[,] <year>": a month is known by its first three letters
ParseLegacyDate(s) ==
  LET w == LetterRun(s)
      word == ToLowerCase(SubSeq(s, 1, IF w < 3 THEN w ELSE 3))
      afterWord == TrimLeft(Drop(s, w))
      dn == DigitRun(afterWord)
      afterDay == Drop(afterWord, dn)
      afterComma == TrimLeft(IF afterDay # <<>> /\ afterDay[1] = "," THEN Tail(afterDay)
                             ELSE afterDay)
      yn == DigitRun(afterComma)
  IN  IF w < 3 \/ ~(\E i \in 1..12 : MonthAbbrevs[i] = word) THEN NoDate
      ELSE IF dn < 1 \/ dn > 2 \/ yn < 1 \/ yn > 6 \/ yn # Len(afterComma) THEN NoDate
      ELSE IF afterDay = afterComma THEN NoDate
      ELSE LET d == Num(SubSeq(afterWord, 1, dn))
           IN  IF d < 1 \/ d > 31 THEN NoDate
               ELSE [valid |-> TRUE, y |-> LegacyYear(Num(afterComma)),
                     m |-> CHOOSE i \in 1..12 : MonthAbbrevs[i] = word, d |-> d,
                     utc |-> FALSE]

ParseDate(s) ==
  LET iso == ParseIsoDate(s)
  IN  IF iso.valid THEN iso ELSE ParseLegacyDate(s)

\* the UTC calendar day of the instant: local midnight east of Greenwich is the day before
UtcDay(p, local) ==
  LET c == CarryDay(p.y, p.m, p.d)
  IN  IF ~p.utc /\ local > 0 THEN PrevDay(c) ELSE c

\* toISOString's year: four digits, or a sign and six digits outside 0..9999
IsoYear(y) ==
  IF y >= 0 /\ y <= 9999 THEN PadStart(Str(y), 4)
  ELSE IF y > 9999 THEN <<"+">> \o PadStart(Str(y), 6)
  ELSE <<"-">> \o PadStart(Str(0 - y), 6)

\* Date.prototype.toISOString
ToISOString(c) ==
  IsoYear(c.y) \o <<"-">> \o PadStart(Str(c.m), 2) \o <<"-">> \o PadStart(Str(c.d), 2)
    \o <<"T", "0", "0", ":", "0", "0", ":", "0", "0", ".", "0", "0", "0", "Z">>

(***************************************************************************)
(* normalizeDate                                                           *)
(***************************************************************************)
normalizeDate(value, local) ==
  IF value = <<>> THEN Throw("Date is required")
  ELSE LET parsed == ParseDate(value)
       IN  IF ~parsed.valid THEN Throw("Invalid date")
           ELSE Return(Slice0(ToISOString(UtcDay(parsed, local)), 10))

(***************************************************************************)
(* The cached connection                                                   *)
(***************************************************************************)
MaxConnects == 3

MaxDisconnects == 1

Callers == {1, 2, 3}

\* const cache = global._mongoose ?? { conn: null, promise: null }
CacheEmpty ==
  /\ cacheConn = 0
  /\ cachePromise = 0

ConnIdle ==
  /\ uriSet = TRUE
  /\ CacheEmpty
  /\ settled = [n \in 1..MaxConnects |-> "pending"]
  /\ connectCalls = 0
  /\ cpc = [c \in Callers |-> "idle"]
  /\ awaiting = [c \in Callers |-> 0]
  /\ got = [c \in Callers |-> 0]
  /\ dpc = "idle"
  /\ disconnects = 0

\* connectToDatabase without its check of the pending promise
NoPromiseCachedAlways == TRUE

\* if (!cache.promise)
NoPromiseCached == cachePromise = 0

\* connectToDatabase up to its await: the cached connection, the missing URI, the shared promise
ConnectCall(c) ==
  /\ cpc[c] = "idle"
  /\ IF cacheConn # 0
       THEN /\ got' = [got EXCEPT ![c] = cacheConn]
            /\ UNCHANGED <<cachePromise, connectCalls, cpc, awaiting>>
     ELSE IF ~uriSet
       THEN UNCHANGED <<cachePromise, connectCalls, cpc, awaiting, got>>
     ELSE IF NoPromiseCached
       THEN /\ connectCalls < MaxConnects
            /\ connectCalls' = connectCalls + 1
            /\ cachePromise' = connectCalls + 1
            /\ cpc' = [cpc EXCEPT ![c] = "await"]
            /\ awaiting' = [awaiting EXCEPT ![c] = connectCalls + 1]
            /\ UNCHANGED got
     ELSE /\ cpc' = [cpc EXCEPT ![c] = "await"]
          /\ awaiting' = [awaiting EXCEPT ![c] = cachePromise]
          /\ UNCHANGED <<cachePromise, connectCalls, got>>
  /\ UNCHANGED <<tz, pureVars, storeVars, uriSet, cacheConn, settled, dpc, disconnects>>

\* mongoose.connect(uri, opts) resolves or rejects
ConnectSettles(n, outcome) ==
  /\ n <= connectCalls
  /\ settled[n] = "pending"
  /\ settled' = [settled EXCEPT ![n] = outcome]
  /\ UNCHANGED <<tz, pureVars, storeVars, uriSet, cacheConn, cachePromise, connectCalls, cpc,
                 awaiting, got, dpc, disconnects>>

\* cache.conn = await cache.promise; return cache.conn  (a rejection is thrown to the caller)
ConnectResume(c) ==
  /\ cpc[c] = "await"
  /\ settled[awaiting[c]] # "pending"
  /\ IF settled[awaiting[c]] = "resolved"
       THEN /\ cacheConn' = awaiting[c]
            /\ got' = [got EXCEPT ![c] = awaiting[c]]
     ELSE UNCHANGED <<cacheConn, got>>
  /\ cpc' = [cpc EXCEPT ![c] = "idle"]
  /\ awaiting' = [awaiting EXCEPT ![c] = 0]
  /\ UNCHANGED <<tz, pureVars, storeVars, uriSet, cachePromise, settled, connectCalls, dpc,
                 disconnects>>

\* disconnectDatabase up to its await
DisconnectCall ==
  /\ dpc = "idle"
  /\ disconnects < MaxDisconnects
  /\ disconnects' = disconnects + 1
  /\ dpc' = "disconnecting"
  /\ UNCHANGED <<tz, pureVars, storeVars, uriSet, cacheConn, cachePromise, settled,
                 connectCalls, cpc, awaiting, got>>

\* cache.conn = null; cache.promise = null
DisconnectResume ==
  /\ dpc = "disconnecting"
  /\ cacheConn' = 0
  /\ cachePromise' = 0
  /\ dpc' = "idle"
  /\ UNCHANGED <<tz, pureVars, storeVars, uriSet, settled, connectCalls, cpc, awaiting, got,
                 disconnects>>

(***************************************************************************)
(* Documents                                                               *)
(***************************************************************************)
MaxEvents == 2

MaxBookings == 1

EventIds == 1..MaxEvents

\* the requests in flight at once
Requests == {1, 2}

\* a path that was never set (JavaScript's undefined); no string is this value
Undefined == <<"undefined">>

\* the String paths of eventSchema declared { required, trim } with no validator of their own
PlainPaths == {"description", "overview", "image", "venue", "location", "mode", "audience",
               "organizer", "date", "time"}

StringPaths == {"title", "slug"} \cup PlainPaths

ArrayPaths == {"agenda", "tags"}

EventPaths == StringPaths \cup ArrayPaths

NoDocument == [kind |-> "none", isNew |-> FALSE, id |-> 0, f |-> <<>>, mod |-> {}]

StoreIdle ==
  /\ events = <<>>
  /\ bookings = <<>>
  /\ pc = [p \in Requests |-> "idle"]
  /\ doc = [p \in Requests |-> NoDocument]
  /\ ret = "none"

\* Mongoose casting and setters: trim on every String path, [] for an array never given
CastEvent(path, v) ==
  IF path \in ArrayPaths THEN (IF v = Undefined THEN <<>> ELSE v)
  ELSE IF v = Undefined THEN v ELSE Trim(v)

\* new Event(input): every path given is set, and a set path counts as modified
NewEventDoc(id, input) ==
  [kind |-> "event", isNew |-> TRUE, id |-> id,
   f |-> [path \in EventPaths |-> CastEvent(path, input[path])],
   mod |-> {path \in EventPaths : input[path] # Undefined}]

\* a document read from the collection, then doc[path] = v: modified only when the value differs
LoadedEventDoc(id, path, v) ==
  LET stored == events[id]
      new == CastEvent(path, v)
  IN  IF path = "none" \/ new = stored[path]
        THEN [kind |-> "event", isNew |-> FALSE, id |-> id, f |-> stored, mod |-> {}]
      ELSE [kind |-> "event", isNew |-> FALSE, id |-> id,
            f |-> [stored EXCEPT ![path] = new], mod |-> {path}]

\* email: { trim: true, lowercase: true }
CastEmail(v) == IF v = Undefined THEN v ELSE ToLowerCase(Trim(v))

NewBookingDoc(input) ==
  [kind |-> "booking", isNew |-> TRUE, id |-> 0,
   f |-> [eventId |-> input.eventId, email |-> CastEmail(input.email)],
   mod |-> {}]

(***************************************************************************)
(* Validation: Mongoose validates before the pre('save') hooks run, the    *)
(* paths of a new document all, of a loaded document the modified ones     *)
(***************************************************************************)
\* required on a String path: undefined and the empty string both fail
StringGiven(v) == v # Undefined /\ v # <<>>

\* the array paths without their validator
ArrayValidAlways(v) == TRUE

\* validator: (v) => Array.isArray(v) && v.length > 0
ArrayValid(v) == Len(v) > 0

\* EMAIL_RE = /^[^\s@]+@[^\s@]+\.[^\s@]+$/
EmailValid(v) ==
  /\ \A i \in 1..Len(v) : ~IsSpace(v[i])
  /\ Cardinality({i \in 1..Len(v) : v[i] = "@"}) = 1
  /\ \E i \in 2..Len(v) : v[i] = "@" /\ \E j \in (i + 2)..(Len(v) - 1) : v[j] = "."

RequiredMessage ==
  [path \in EventPaths |->
     CASE path = "title" -> "Title is required"
       [] path = "slug" -> "Path slug is required"
       [] path = "description" -> "Description is required"
       [] path = "overview" -> "Overview is required"
       [] path = "image" -> "Image is required"
       [] path = "venue" -> "Venue is required"
       [] path = "location" -> "Location is required"
       [] path = "date" -> "Date is required"
       [] path = "time" -> "Time is required"
       [] path = "mode" -> "Mode is required"
       [] path = "audience" -> "Audience is required"
       [] path = "agenda" -> "Agenda must contain at least one item"
       [] path = "organizer" -> "Organizer is required"
       [] path = "tags" -> "Tags must contain at least one tag"]

\* title's validator: (v) => typeof v === 'string' && v.trim().length > 0
TitleValid(v) == Len(Trim(v)) > 0

PathValid(d, path) ==
  IF path \in ArrayPaths THEN ArrayValid(d.f[path])
  ELSE IF path = "title" THEN StringGiven(d.f[path]) /\ TitleValid(d.f[path])
  ELSE StringGiven(d.f[path])

PathsToValidate(d) == IF d.isNew THEN EventPaths ELSE d.mod

\* the paths of the document that fail their rules
EventFailures(d) == {path \in PathsToValidate(d) : ~PathValid(d, path)}

ValidateEvent(d) ==
  IF EventFailures(d) = {} THEN ""
  ELSE RequiredMessage[CHOOSE path \in EventFailures(d) : TRUE]

ValidateBooking(d) ==
  IF d.f.eventId = 0 THEN "Path eventId is required"
  ELSE IF ~StringGiven(d.f.email) THEN "Email is required"
  ELSE IF ~EmailValid(d.f.email) THEN "Invalid email format"
  ELSE ""

(***************************************************************************)
(* eventSchema.pre('save')                                                 *)
(***************************************************************************)
\* this.isModified(path)
IsModified(d, path) == path \in d.mod

\* this.path = v inside the hook
SetPath(d, path, v) ==
  IF CastEvent(path, v) = d.f[path] THEN d
  ELSE [d EXCEPT !.f[path] = CastEvent(path, v), !.mod = @ \cup {path}]

SlugStep(d) ==
  IF IsModified(d, "title") \/ ~StringGiven(d.f["slug"])
    THEN SetPath(d, "slug", generateSlug(d.f["title"]))
  ELSE d

\* if (this.isModified('time')) this.time = normalizeTime(this.time)
TimeAssigned(d, r) ==
  IF r.err # "" THEN [err |-> r.err, d |-> d] ELSE [err |-> "", d |-> SetPath(d, "time", r.v)]

TimeStep(d, local) ==
  IF IsModified(d, "time") THEN TimeAssigned(d, normalizeTime(d.f["time"], local))
  ELSE [err |-> "", d |-> d]

\* if (this.isModified('date')) this.date = normalizeDate(this.date)
DateAssigned(d, r) ==
  IF r.err # "" THEN [err |-> r.err, d |-> d] ELSE [err |-> "", d |-> SetPath(d, "date", r.v)]

DateStep(d, local) ==
  IF IsModified(d, "date") THEN DateAssigned(d, normalizeDate(d.f["date"], local))
  ELSE [err |-> "", d |-> d]

\* a step of the hook runs unless an earlier one threw
Then(h, local) == IF h.err # "" THEN h ELSE TimeStep(h.d, local)

\* the hook's outcome: the error thrown ("" when none) and the document after it
EventPreSave(d, local) == Then(DateStep(SlugStep(d), local), local)

(***************************************************************************)
(* The collections                                                         *)
(***************************************************************************)
\* the collection without its unique index
SlugTakenNever(id, slug) == FALSE

\* the unique index on slug: another committed Event holds the key
SlugTaken(id, slug) == \E other \in DOMAIN events : other # id /\ events[other]["slug"] = slug

\* the hook without its await: a pending promise is always truthy
EventExistsAlways(id) == TRUE

\* Event.exists({ _id })
EventExists(id) == id \in DOMAIN events

\* insertOne of a new document, updateOne({ $set: modified paths }) of a loaded one
WriteEvent(d) ==
  IF d.isNew THEN events @@ (d.id :> d.f)
  ELSE [events EXCEPT ![d.id] = [path \in EventPaths |->
                                   IF path \in d.mod THEN d.f[path] ELSE @[path]]]

\* _ids of new documents not yet written: an ObjectId is never handed out twice
PendingIds == {doc[p].id : p \in {q \in Requests : doc[q].kind = "event" /\ doc[q].isNew}}

(***************************************************************************)
(* Requests                                                                *)
(***************************************************************************)
FreeIds == EventIds \ (DOMAIN events \cup PendingIds)

\* the _id a new document gets: one no other document has
FreshId == CHOOSE id \in FreeIds : \A other \in FreeIds : id <= other

\* a caller builds a new Event from its input and calls save()
CreateEvent(p, inputs) ==
  /\ pc[p] = "idle"
  /\ FreeIds # {}
  /\ \E input \in inputs : doc' = [doc EXCEPT ![p] = NewEventDoc(FreshId, input)]
  /\ pc' = [pc EXCEPT ![p] = "save"]
  /\ ret' = "none"
  /\ UNCHANGED <<tz, pureVars, connVars, events, bookings>>

\* a caller reads an Event, assigns one path (or none) and calls save()
UpdateEvent(p, changes) ==
  /\ pc[p] = "idle"
  /\ \E id \in DOMAIN events :
       \E c \in changes :
         doc' = [doc EXCEPT ![p] = LoadedEventDoc(id, c.path, c.v)]
  /\ pc' = [pc EXCEPT ![p] = "save"]
  /\ ret' = "none"
  /\ UNCHANGED <<tz, pureVars, connVars, events, bookings>>

\* the write: the unique index rejects a slug another Event holds
CommitEvent(d) ==
  IF (d.isNew \/ IsModified(d, "slug")) /\ SlugTaken(d.id, d.f["slug"])
    THEN [ret |-> "E11000 duplicate key error", events |-> events]
  ELSE [ret |-> "ok", events |-> WriteEvent(d)]

AfterHook(h) == IF h.err # "" THEN [ret |-> h.err, events |-> events] ELSE CommitEvent(h.d)

AfterValidation(d, invalid, local) ==
  IF invalid # "" THEN [ret |-> invalid, events |-> events]
  ELSE AfterHook(EventPreSave(d, local))

\* save() of an Event: validation, the pre-save hook, then the write
SaveEvent(p) ==
  /\ pc[p] = "save"
  /\ doc[p].kind = "event"
  /\ \E out \in {AfterValidation(doc[p], ValidateEvent(doc[p]), tz)} :
       /\ ret' = out.ret
       /\ events' = out.events
  /\ pc' = [pc EXCEPT ![p] = "idle"]
  /\ doc' = [doc EXCEPT ![p] = NoDocument]
  /\ UNCHANGED <<tz, pureVars, connVars, bookings>>

\* a caller builds a new Booking and calls save()
CreateBooking(p, inputs) ==
  /\ pc[p] = "idle"
  /\ Len(bookings) < MaxBookings
  /\ \E input \in inputs : doc' = [doc EXCEPT ![p] = NewBookingDoc(input)]
  /\ pc' = [pc EXCEPT ![p] = "save"]
  /\ ret' = "none"
  /\ UNCHANGED <<tz, pureVars, connVars, events, bookings>>

\* save() of a Booking up to the hook's awaited Event.exists
SaveBooking(p) ==
  /\ pc[p] = "save"
  /\ doc[p].kind = "booking"
  /\ LET invalid == ValidateBooking(doc[p])
     IN  IF invalid # ""
           THEN /\ ret' = invalid
                /\ pc' = [pc EXCEPT ![p] = "idle"]
                /\ doc' = [doc EXCEPT ![p] = NoDocument]
         ELSE IF ~EventExists(doc[p].f.eventId)
           THEN /\ ret' = "Referenced event does not exist"
                /\ pc' = [pc EXCEPT ![p] = "idle"]
                /\ doc' = [doc EXCEPT ![p] = NoDocument]
         ELSE /\ ret' = "none"
              /\ pc' = [pc EXCEPT ![p] = "insert"]
              /\ UNCHANGED doc
  /\ UNCHANGED <<tz, pureVars, connVars, events, bookings>>

\* the write that follows the hook
InsertBooking(p) ==
  /\ pc[p] = "insert"
  /\ bookings' = Append(bookings, doc[p].f)
  /\ ret' = "ok"
  /\ pc' = [pc EXCEPT ![p] = "idle"]
  /\ doc' = [doc EXCEPT ![p] = NoDocument]
  /\ UNCHANGED <<tz, pureVars, connVars, events>>

(***************************************************************************)
(* normalizeTime applied to a drawn input, and again to its own result     *)
(***************************************************************************)
TZOffsets == {-300, 0, 120, 330}

HourTexts == {<<"0">>, <<"9">>, <<"0", "9">>, <<"1", "2">>, <<"1", "3">>, <<"2", "3">>,
              <<"2", "4">>, <<"2", "5">>}

SepTexts == {<<>>, <<":">>, <<".">>, <<"h">>}

MinuteTexts == {<<>>, <<"0", "0">>, <<"3", "0">>, <<"6", "0">>}

SuffixTexts == {<<>>, <<" ", "A", "M">>, <<" ", "P", "M">>, <<"a", "m">>, <<"p", "m">>,
                <<" ", "P", "m">>, <<" ", "A", "m">>, <<"Z">>, <<":", "1", "5">>,
                <<"+", "0", "1", ":", "0", "0">>, <<" ", "x">>}

TimeInputs ==
  {h \o s \o m \o x : h \in HourTexts, s \in SepTexts, m \in MinuteTexts, x \in SuffixTexts}
    \cup {<<>>, <<" ", "9", ":", "3", "0", " ">>, <<"n", "o", "o", "n">>}

InitTime ==
  /\ tz \in TZOffsets
  /\ arg \in TimeInputs
  /\ res1 = NoResult
  /\ res2 = NoResult
  /\ fpc = "start"
  /\ StoreIdle
  /\ ConnIdle

NormalizeTimeOnce ==
  /\ fpc = "start"
  /\ res1' = normalizeTime(arg, tz)
  /\ fpc' = "once"
  /\ UNCHANGED <<tz, arg, res2, storeVars, connVars>>

NormalizeTimeAgain ==
  /\ fpc = "once"
  /\ res1.err = ""
  /\ res2' = normalizeTime(res1.v, tz)
  /\ fpc' = "twice"
  /\ UNCHANGED <<tz, arg, res1, storeVars, connVars>>

NextTime == NormalizeTimeOnce \/ NormalizeTimeAgain

SpecTime == InitTime /\ [][NextTime]_vars

(***************************************************************************)
(* normalizeDate applied to a drawn input, and again to its own result     *)
(***************************************************************************)
YearTexts == {<<"2", "0", "2", "4">>, <<"1", "9", "9", "9">>, <<"0", "0", "0", "1">>}

MonthTexts == {<<"0", "1">>, <<"0", "2">>, <<"0", "9">>, <<"1", "2">>, <<"1", "3">>}

DayTexts == {<<"0", "1">>, <<"1", "5">>, <<"2", "9">>, <<"3", "1">>}

MonthNames == {<<"S", "e", "p", "t", "e", "m", "b", "e", "r">>, <<"J", "a", "n">>,
               <<"m", "a", "r", "c", "h">>, <<"D", "e", "c">>}

LegacyDays == {<<"1">>, <<"1", "5">>, <<"3", "1">>}

LegacyYears == {<<"2", "0", "2", "4">>, <<"1", "9", "9", "9">>, <<"1", "0", "0", "0", "0">>}

DateInputs ==
  {y \o <<"-">> \o m \o <<"-">> \o d : y \in YearTexts, m \in MonthTexts, d \in DayTexts}
    \cup {n \o <<" ">> \o d \o <<",", " ">> \o y :
            n \in MonthNames, d \in LegacyDays, y \in LegacyYears}
    \cup {<<>>, <<"g", "a", "r", "b", "a", "g", "e">>, <<"2", "0", "2", "4">>,
          <<"2", "0", "2", "4", "-", "0", "9">>,
          <<"+", "0", "1", "0", "0", "0", "0", "-", "0", "1", "-", "0", "1">>,
          <<"+", "0", "0", "2", "0", "2", "4", "-", "0", "9", "-", "1", "5">>,
          <<"-", "0", "0", "0", "0", "0", "1", "-", "1", "2", "-", "3", "1">>}

InitDate ==
  /\ tz \in TZOffsets
  /\ arg \in DateInputs
  /\ res1 = NoResult
  /\ res2 = NoResult
  /\ fpc = "start"
  /\ StoreIdle
  /\ ConnIdle

NormalizeDateOnce ==
  /\ fpc = "start"
  /\ res1' = normalizeDate(arg, tz)
  /\ fpc' = "once"
  /\ UNCHANGED <<tz, arg, res2, storeVars, connVars>>

NormalizeDateAgain ==
  /\ fpc = "once"
  /\ res1.err = ""
  /\ res2' = normalizeDate(res1.v, tz)
  /\ fpc' = "twice"
  /\ UNCHANGED <<tz, arg, res1, storeVars, connVars>>

NextDate == NormalizeDateOnce \/ NormalizeDateAgain

SpecDate == InitDate /\ [][NextDate]_vars

(***************************************************************************)
(* Inputs                                                                  *)
(***************************************************************************)
SomeText == <<"v">>

IsoDateText == <<"2", "0", "2", "4", "-", "0", "9", "-", "1", "5">>

LongDateText == <<"S", "e", "p", "t", "e", "m", "b", "e", "r", " ", "1", "5", ",", " ",
                  "2", "0", "2", "4">>

FarDateText == <<"+", "0", "1", "0", "0", "0", "0", "-", "0", "1", "-", "0", "1">>

BadDateText == <<"g", "a", "r", "b", "a", "g", "e">>

EveningText == <<"9", ":", "3", "0", " ", "P", "M">>

MorningText == <<"0", "9", ":", "3", "0">>

MidnightText == <<"2", "4", ":", "0", "0">>

BadTimeText == <<"2", "5", ":", "0", "0">>

GoodEmailText == <<" ", "U", "@", "e", ".", "c">>

BaseInput ==
  [path \in EventPaths |->
     CASE path = "title" -> <<"A", "b">>
       [] path = "slug" -> <<"x">>
       [] path = "date" -> IsoDateText
       [] path = "time" -> EveningText
       [] path = "agenda" -> <<"talk">>
       [] path = "tags" -> <<"dev">>
       [] OTHER -> SomeText]

With(input, path, v) == [input EXCEPT ![path] = v]

\* "Ab" and "ab!" share the slug "ab"; " a b " has the slug "a-b"
GoodTitles == {<<"A", "b">>, <<"a", "b", "!">>, <<" ", "a", " ", "b", " ">>}

Change(path, v) == [path |-> path, v |-> v]

(***************************************************************************)
(* Two concurrent requests saving well-formed Events and Bookings on a     *)
(* host at UTC                                                             *)
(***************************************************************************)
\* two titles that share the slug "ab"
RaceInputs == {With(BaseInput, "title", t) : t \in {<<"A", "b">>, <<"a", "b", "!">>}}

\* a new title, whose slug is "a-b", or a new slug
RaceChanges == {Change("title", <<" ", "a", " ", "b", " ">>), Change("slug", <<"x">>)}

RaceBookings ==
  {[eventId |-> i, email |-> GoodEmailText] : i \in EventIds}
    \cup {[eventId |-> 1, email |-> <<"n", "o">>]}

Init ==
  /\ tz = 0
  /\ arg = <<>>
  /\ res1 = NoResult
  /\ res2 = NoResult
  /\ fpc = "start"
  /\ StoreIdle
  /\ ConnIdle

Next ==
  \E p \in Requests :
    \/ CreateEvent(p, RaceInputs)
    \/ UpdateEvent(p, RaceChanges)
    \/ SaveEvent(p)
    \/ CreateBooking(p, RaceBookings)
    \/ SaveBooking(p)
    \/ InsertBooking(p)

Spec == Init /\ [][Next]_vars

(***************************************************************************)
(* One request at a time, over inputs that keep and that break the rules   *)
(***************************************************************************)
RuleTitles == GoodTitles \cup {<<" ">>, Undefined}

RuleSlugs == {Undefined, <<"x">>}

RuleInputs ==
  {With(With(BaseInput, "title", t), "slug", s) : t \in RuleTitles, s \in RuleSlugs}
    \cup {With(BaseInput, path, Undefined) : path \in EventPaths \ {"title", "slug"}}
    \cup {With(BaseInput, "agenda", <<>>), With(BaseInput, "tags", <<>>),
          With(BaseInput, "venue", <<" ">>), With(BaseInput, "date", BadDateText),
          With(BaseInput, "time", BadTimeText)}

RuleChanges ==
  {Change("none", <<>>)}
    \cup {Change("title", t) : t \in RuleTitles}
    \cup {Change("slug", t) : t \in {<<"x">>, <<"a", "b">>, <<>>}}
    \cup {Change("agenda", <<>>), Change("tags", <<>>), Change("date", BadDateText),
          Change("time", BadTimeText), Change("time", MorningText),
          Change("overview", Undefined)}

RuleEmails == {GoodEmailText, <<"n", "o">>, <<"a", "@", "b">>, <<"a", " ", "@", "b", ".", "c">>,
               <<>>, Undefined}

\* eventId 0 stands for a Booking built without an eventId
RuleBookings == {[eventId |-> i, email |-> e] : i \in EventIds \cup {0}, e \in RuleEmails}

NextRules ==
  \/ CreateEvent(1, RuleInputs)
  \/ UpdateEvent(1, RuleChanges)
  \/ SaveEvent(1)
  \/ CreateBooking(1, RuleBookings)
  \/ SaveBooking(1)
  \/ InsertBooking(1)

SpecRules == Init /\ [][NextRules]_vars

(***************************************************************************)
(* One request at a time, over the date and time formats and the host's    *)
(* time zone                                                               *)
(***************************************************************************)
NormDates == {IsoDateText, LongDateText, FarDateText, BadDateText}

NormTimes == {EveningText, MorningText, MidnightText, BadTimeText}

NormInputs ==
  {With(With(BaseInput, "date", d), "time", t) : d \in NormDates, t \in NormTimes}

NormChanges ==
  {Change("none", <<>>)}
    \cup {Change("date", d) : d \in NormDates}
    \cup {Change("time", t) : t \in NormTimes}

InitNorm ==
  /\ tz \in TZOffsets
  /\ arg = <<>>
  /\ res1 = NoResult
  /\ res2 = NoResult
  /\ fpc = "start"
  /\ StoreIdle
  /\ ConnIdle

NextNorm ==
  \/ CreateEvent(1, NormInputs)
  \/ UpdateEvent(1, NormChanges)
  \/ SaveEvent(1)

SpecNorm == InitNorm /\ [][NextNorm]_vars

(***************************************************************************)
(* Callers of connectToDatabase and disconnectDatabase                     *)
(***************************************************************************)
InitConn ==
  /\ tz = 0
  /\ arg = <<>>
  /\ res1 = NoResult
  /\ res2 = NoResult
  /\ fpc = "start"
  /\ StoreIdle
  /\ uriSet \in BOOLEAN
  /\ CacheEmpty
  /\ settled = [n \in 1..MaxConnects |-> "pending"]
  /\ connectCalls = 0
  /\ cpc = [c \in Callers |-> "idle"]
  /\ awaiting = [c \in Callers |-> 0]
  /\ got = [c \in Callers |-> 0]
  /\ dpc = "idle"
  /\ disconnects = 0

NextConn ==
  \/ \E c \in Callers : ConnectCall(c)
  \/ \E n \in 1..MaxConnects : \E outcome \in {"resolved", "rejected"} : ConnectSettles(n, outcome)
  \/ \E c \in Callers : ConnectResume(c)
  \/ DisconnectCall
  \/ DisconnectResume

SpecConn == InitConn /\ [][NextConn]_vars

(***************************************************************************)
(* Properties                                                              *)
(***************************************************************************)
DuplicateKey == "E11000 duplicate key error"

Rejected(r) == r # "ok" /\ r # "none"

\* request p's save() ends in this step
Finishes(p) == pc[p] # "idle" /\ pc'[p] = "idle"

\* the String paths named are given and not empty, the lists are not empty, and the date
\* and the time can be normalized
FieldsGiven(d, paths) ==
  /\ \A path \in paths : d.f[path] # Undefined /\ d.f[path] # <<>>
  /\ \A path \in ArrayPaths : Len(d.f[path]) > 0
  /\ normalizeDate(d.f["date"], tz).err = ""
  /\ normalizeTime(d.f["time"], tz).err = ""

C2_SlugDerivedFromTitle ==
  \A id \in DOMAIN events : events[id]["slug"] = generateSlug(events[id]["title"])

\* what the rules ask of a new Event apart from its slug
WellFormedButSlug(d) ==
  /\ FieldsGiven(d, StringPaths \ {"slug"})
  /\ \A other \in DOMAIN events : events[other]["slug"] # generateSlug(d.f["title"])

\* C3: the first save of a new Event that supplies no slug and is otherwise well formed
\* succeeds and commits the Event with slug = generateSlug(title).
C3_CreateWithoutSlug ==
  [][\A p \in Requests :
       (/\ Finishes(p)
        /\ doc[p].kind = "event"
        /\ doc[p].isNew
        /\ doc[p].f["slug"] = Undefined
        /\ WellFormedButSlug(doc[p]))
         => (/\ ret' = "ok"
             /\ doc[p].id \in DOMAIN events'
             /\ events'[doc[p].id]["slug"] = generateSlug(doc[p].f["title"]))]_vars

\* YYYY-MM-DD
IsCanonicalDate(v) ==
  /\ Len(v) = 10
  /\ AllDigits(SubSeq(v, 1, 4))
  /\ v[5] = "-"
  /\ AllDigits(SubSeq(v, 6, 7))
  /\ v[8] = "-"
  /\ AllDigits(SubSeq(v, 9, 10))

\* HH:MM, hour 00..23, minute 00..59
IsCanonicalTime(v) ==
  /\ Len(v) = 5
  /\ AllDigits(SubSeq(v, 1, 2))
  /\ v[3] = ":"
  /\ AllDigits(SubSeq(v, 4, 5))
  /\ Num(SubSeq(v, 1, 2)) <= 23
  /\ Num(SubSeq(v, 4, 5)) <= 59

\* C4: every committed Event has a date of the form YYYY-MM-DD and a time of the form
\* HH:MM with hour 0..23 and minute 0..59, whatever input format was submitted.
C4_CanonicalDateTime ==
  \A id \in DOMAIN events :
    IsCanonicalDate(events[id]["date"]) /\ IsCanonicalTime(events[id]["time"])

\* C5: normalizeTime is idempotent for every accepted input and every host time-zone
\* offset: normalizeTime(normalizeTime(x)) = normalizeTime(x).
C5_NormalizeTimeIdempotent == fpc = "twice" => res2 = res1

\* the date a well-formed input names, as YYYY-MM-DD
DenotedDate(p) ==
  PadStart(Str(p.y), 4) \o <<"-">> \o PadStart(Str(p.m), 2) \o <<"-">> \o PadStart(Str(p.d), 2)

\* C6: for every parseable date string that names a calendar date and every host
\* time-zone offset, normalizeDate returns that date as YYYY-MM-DD, and normalizing
\* the result again returns it unchanged.
C6_NormalizeDateDenotes ==
  LET p == ParseDate(arg)
  IN  (/\ fpc # "start"
       /\ p.valid
       /\ p.y >= 0
       /\ p.y <= 9999
       /\ p.d <= DaysInMonth(p.y, p.m))
        => (/\ res1 = Return(DenotedDate(p))
            /\ fpc = "twice" => res2 = res1)

\* AM / PM in any letter case, read as upper case
UpperAmPm(s) ==
  [i \in 1..Len(s) |->
     IF s[i] \in {"a", "p", "m"} THEN UpperChars[CHOOSE k \in 1..26 : LowerChars[k] = s[i]]
     ELSE s[i]]

\* the 24-hour conversion: 12 AM is 00, 12 PM is 12, any other PM hour has 12 added
ConvertedHour(h, ampm) ==
  IF ampm = <<"A", "M">> THEN (IF h = 12 THEN 0 ELSE h)
  ELSE IF ampm = <<"P", "M">> THEN (IF h = 12 THEN 12 ELSE h + 12)
  ELSE h

\* C9: an input that reaches the pattern fallback and has hour digits, an optional
\* ':', '.' or 'h', two minute digits and optionally AM or PM in any letter case
\* gives the 24-hour conversion, or an error when the hour or minute is out of range.
C9_FallbackConversion ==
  LET t == Trim(arg)
      m == MatchTime(UpperAmPm(t))
      hour == ConvertedHour(Num(m.h), m.ampm)
  IN  (/\ fpc # "start"
       /\ ~ParseIsoTime(t, tz).valid
       /\ m.matched
       /\ m.m # <<>>)
        => IF hour > 23 \/ Num(m.m) > 59 THEN res1.err # ""
           ELSE res1 = Return(FormatHM(hour, Num(m.m)))

\* C7: the save of a Booking with an eventId and a valid email goes on to its insert
\* exactly when an Event with that _id is committed at the hook's check, and fails with
\* the referential error otherwise; the insert then succeeds; so every committed
\* Booking's eventId is the _id of a committed Event.
C7_BookingNeedsEvent ==
  /\ [](\A i \in 1..Len(bookings) : bookings[i].eventId \in DOMAIN events)
  /\ [][\A p \in Requests :
          (/\ pc[p] = "save"
           /\ pc'[p] # "save"
           /\ doc[p].kind = "booking"
           /\ doc[p].f.eventId # 0
           /\ EmailValid(doc[p].f.email))
            => IF doc[p].f.eventId \in DOMAIN events
                 THEN pc'[p] = "insert" /\ bookings' = bookings
               ELSE /\ pc'[p] = "idle"
                    /\ ret' = "Referenced event does not exist"
                    /\ bookings' = bookings]_vars
  /\ [][\A p \in Requests :
          (pc[p] = "insert" /\ pc'[p] # "insert")
            => (ret' = "ok" /\ bookings' = Append(bookings, doc[p].f))]_vars

\* C7 witness: a Booking was just committed for a committed Event while the other
\* Event _id, which Bookings were also submitted for, is still unused
C7_Witness ==
  /\ ret = "ok"
  /\ bookings # <<>>
  /\ bookings[Len(bookings)].eventId \in DOMAIN events
  /\ DOMAIN events # EventIds

\* the rules a save can break, read off the document handed to save()
BreaksRule(d) ==
  IF d.kind = "event"
    THEN \/ \E path \in StringPaths \cap (IF d.isNew THEN EventPaths ELSE d.mod) :
              d.f[path] = Undefined \/ d.f[path] = <<>>
         \/ \E path \in ArrayPaths \cap (IF d.isNew THEN EventPaths ELSE d.mod) :
              Len(d.f[path]) = 0
         \/ "date" \in d.mod /\ normalizeDate(d.f["date"], tz).err # ""
         \/ "time" \in d.mod /\ normalizeTime(d.f["time"], tz).err # ""
         \/ /\ d.isNew \/ "title" \in d.mod \/ "slug" \in d.mod
            /\ \E other \in DOMAIN events :
                 /\ other # d.id
                 /\ events[other]["slug"] =
                      (IF "title" \in d.mod THEN generateSlug(d.f["title"]) ELSE d.f["slug"])
  ELSE \/ d.f.eventId = 0
       \/ d.f.email = Undefined
       \/ ~EmailValid(d.f.email)
       \/ d.f.eventId \notin DOMAIN events

\* C8: a save that breaks a rule returns an error, and a save that returns an error
\* leaves the committed Events and Bookings exactly as they were.
C8_RejectedSaveWritesNothing ==
  [][\A p \in Requests :
       (pc[p] = "save" /\ pc'[p] # "save")
         => (/\ BreaksRule(doc[p]) => Rejected(ret')
             /\ Rejected(ret') => (events' = events /\ bookings' = bookings))]_vars

\* C8 witness: a save was just rejected for its empty agenda while Events and a Booking
\* are committed
C8_Witness ==
  /\ ret = "Agenda must contain at least one item"
  /\ events # <<>>
  /\ bookings # <<>>

\* C10: with no disconnectDatabase call so far, mongoose.connect was invoked at most
\* once and every caller that got a connection got the same one, the cached one.
C10_ConnectOnce ==
  disconnects = 0 =>
    /\ connectCalls <= 1
    /\ \A c \in Callers : \A e \in Callers : (got[c] # 0 /\ got[e] # 0) => got[c] = got[e]
    /\ \A c \in Callers : (got[c] # 0 /\ cacheConn # 0) => got[c] = cacheConn

\* C10 witness: no disconnect, all three callers hold a connection, two of them after
\* waiting on the pending promise and one from the cache
C10_Witness ==
  /\ disconnects = 0
  /\ connectCalls = 1
  /\ \A c \in Callers : got[c] # 0 /\ cpc[c] = "idle"

====
